---- MODULE Spec2Model ----
(***************************************************************************)
(* Model of src/options/options.js: the HistoryBlock background object     *)
(* (pattern store in browser.storage.sync, visit filter) as it is driven   *)
(* by messages, context-menu clicks and history.onVisited events.          *)
(*                                                                         *)
(* JavaScript runs each async handler to its next `await`; the storage     *)
(* call behind an await takes effect atomically at some later moment, and  *)
(* handlers of different invocations interleave at those points.  One      *)
(* model step is therefore one storage call (or the one sendMessage /      *)
(* deleteUrl call) together with the synchronous code that runs after it   *)
(* up to the next call.                                                    *)
(*                                                                         *)
(* Strings are sequences of one-character strings, so that split(','),     *)
(* trim() and RegExp.test are computed rather than assumed.                *)
(***************************************************************************)
EXTENDS Integers, Sequences, FiniteSets, TLC

VARIABLES storage, procs, started, notifications, persisted,
          rendered, renders, delivered

\* The options page: the items of #blacklist, its renderBlacklist calls in
\* flight, and the number of blacklistUpdated messages it has received.
page == <<rendered, renders, delivered>>

vars == <<storage, procs, started, notifications, persisted, page>>

\* ------------------------------------------------------------------ bounds

\* Number of handler invocations (messages, clicks, visits) in one behaviour.
MaxOps == 2

\* Concurrent handler invocations in flight (slots of the event loop).
Procs == {"h1", "h2"}

\* ------------------------------------------------------------------ inputs

\* The JavaScript value undefined (a missing key of the storage object).
Undefined == "undefined"

\* What the user types into the prompt of Options.addToBlacklist /
\* removeFromBlacklist: "a,,(".
PromptInputs == { <<"a", ",", ",", "(">> }

\* Visited addresses: "ab" and "b".
Urls == { <<"a", "b">>, <<"b">> }

\* message.blacklist texts: "", "a" and "a,b,a, c".
ImportInputs ==
    { <<>>,
      <<"a">>,
      <<"a", ",", "b", ",", "a", ",", " ", "c">> }

\* message.listMode values; Undefined is a message without the field.
ModeInputs == { "blacklist", "whitelist", "foo", Undefined }

\* ------------------------------------------------------- string functions

\* Array.prototype.includes on an array of strings.
Includes(arr, x) == \E i \in DOMAIN arr : arr[i] = x

\* Array.prototype.indexOf (1-based here), for an element that is included.
IndexOf(arr, x) == CHOOSE i \in DOMAIN arr : arr[i] = x /\ \A j \in 1..(i-1) : arr[j] # x

\* splice(index) without the count: everything from index on is removed.
Splice_ToEnd(arr, i) == SubSeq(arr, 1, i-1)

\* Array.prototype.splice(index, 1).
Splice(arr, i) == SubSeq(arr, 1, i-1) \o SubSeq(arr, i+1, Len(arr))

RECURSIVE TrimLeft(_)
TrimLeft(s) == IF s # <<>> /\ Head(s) = " " THEN TrimLeft(Tail(s)) ELSE s

RECURSIVE TrimRight(_)
TrimRight(s) ==
    IF s # <<>> /\ s[Len(s)] = " " THEN TrimRight(SubSeq(s, 1, Len(s)-1)) ELSE s

\* String.prototype.trim.
Trim(s) == TrimRight(TrimLeft(s))

\* String.prototype.split(','): cur is the token being read.
RECURSIVE SplitFrom(_, _)
SplitFrom(s, cur) ==
    IF s = <<>> THEN <<cur>>
    ELSE IF Head(s) = "," THEN <<cur>> \o SplitFrom(Tail(s), <<>>)
    ELSE SplitFrom(Tail(s), Append(cur, Head(s)))

Split(s) == SplitFrom(s, <<>>)

\* message.url of the addToBlacklist / removeFromBlacklist messages: the options
\* page sends each token of input.split(',') as it is, so here "a", "" and "("
\* (which is not a regular expression: new RegExp("(") throws SyntaxError).
Patterns == UNION { {Split(input)[i] : i \in DOMAIN Split(input)} : input \in PromptInputs }

\* new RegExp(p) succeeds; over this alphabet only "(" is a metacharacter, and
\* an unterminated group is a SyntaxError.
Compiles(p) == \A i \in DOMAIN p : p[i] # "("

\* re.test(url) for a compiled pattern of literal characters: a search, not a
\* full match.
Test(p, url) ==
    \E i \in 0..(Len(url) - Len(p)) : SubSeq(url, i+1, i+Len(p)) = p

\* The for loop of onPageVisited with its break; a SyntaxError of new RegExp
\* leaves the loop and the handler.
RECURSIVE TestLoop(_, _, _)
TestLoop(blacklist, url, i) ==
    IF i > Len(blacklist) THEN "notfound"
    ELSE IF ~Compiles(blacklist[i]) THEN "threw"
    ELSE IF Test(blacklist[i], url) THEN "found"
    ELSE TestLoop(blacklist, url, i+1)

\* this.hash of HistoryBlock: no constructor or method assigns it.
ThisHash == Undefined

\* The for loop of importBlacklist.  this.hash.test(hash) is evaluated only
\* when the token is not included, and is a TypeError while this.hash is
\* undefined.
RECURSIVE ImportLoop(_, _, _)
ImportLoop(blarr, blacklist, i) ==
    IF i > Len(blarr) THEN [threw |-> FALSE, blacklist |-> blacklist]
    ELSE LET hash == Trim(blarr[i]) IN
         IF Includes(blacklist, hash) THEN ImportLoop(blarr, blacklist, i+1)
         ELSE IF ThisHash = Undefined THEN [threw |-> TRUE, blacklist |-> blacklist]
         ELSE ImportLoop(blarr, Append(blacklist, hash), i+1)

\* ------------------------------------------------------------------ state

\* browser.storage.sync with nothing persisted.
EmptyStorage == [hasBlacklist |-> FALSE, blacklist |-> <<>>, listMode |-> Undefined]

\* A handler slot with no invocation in it.
Idle ==
    [op |-> "none", arg |-> <<>>, listMode |-> Undefined, pc |-> "idle",
     hasBl |-> FALSE, bl |-> <<>>, log |-> <<>>, pre |-> EmptyStorage, solo |-> TRUE]

\* What browser.storage.sync holds when the background script starts: nothing
\* (a fresh profile), or what earlier sessions persisted through block and
\* changeListMode: ["(", "a"] with mode blacklist, ["a"] with mode whitelist.
InitialStorages ==
    { EmptyStorage,
      [hasBlacklist |-> TRUE, blacklist |-> << <<"(">>, <<"a">> >>, listMode |-> "blacklist"],
      [hasBlacklist |-> TRUE, blacklist |-> << <<"a">> >>, listMode |-> "whitelist"] }

\* The background script has started; no options page is open.  persisted
\* is the history of browser.storage.sync: every value it has held.
Init ==
    /\ storage \in InitialStorages
    /\ procs = [p \in Procs |-> Idle]
    /\ started = 0
    /\ notifications = 0
    /\ persisted = {storage}
    /\ rendered = <<>>
    /\ renders = <<>>
    /\ delivered = 0

\* Another invocation took a step while this one was in its slot.
Overlapped(l) == IF l.pc = "idle" THEN l ELSE [l EXCEPT !.solo = FALSE]

\* Slot p becomes l; every other occupied slot has been overlapped.
Update(p, l) == [q \in Procs |-> IF q = p THEN l ELSE Overlapped(procs[q])]

Logged(l, what) == [l EXCEPT !.log = Append(@, what)]

\* A slot is free and the behaviour's budget of invocations is not used up.
CanBegin(p) == procs[p].pc = "idle" /\ started < MaxOps

\* The invocation record of a handler that has run up to its first await.
Invocation(op, arg, listMode, pc) ==
    [Idle EXCEPT !.op = op, !.arg = arg, !.listMode = listMode, !.pc = pc,
                 !.pre = storage]

\* ---------------------------------------------------------------- handlers

\* onMessage 'addToBlacklist' / context menu "blockthis": block(regex) up to
\* its first await (getBlacklist's storage.sync.get).
StartBlock(p) ==
    /\ CanBegin(p)
    /\ \E regex \in Patterns :
          procs' = Update(p, Invocation("block", regex, Undefined, "gb_get1"))
    /\ started' = started + 1
    /\ UNCHANGED <<storage, notifications, persisted, page>>

\* onMessage 'removeFromBlacklist' / context menu "unblockthis".
StartUnblock(p) ==
    /\ CanBegin(p)
    /\ \E regex \in Patterns :
          procs' = Update(p, Invocation("unblock", regex, Undefined, "gb_get1"))
    /\ started' = started + 1
    /\ UNCHANGED <<storage, notifications, persisted, page>>

\* onMessage 'importBlacklist': if(list) skips the whole body for "".
StartImport(p) ==
    /\ CanBegin(p)
    /\ \E list \in ImportInputs :
          procs' = Update(p, Invocation("import", list, Undefined,
                                        IF list = <<>> THEN "done" ELSE "gb_get1"))
    /\ started' = started + 1
    /\ UNCHANGED <<storage, notifications, persisted, page>>

\* onMessage 'clearBlacklist'.
StartClear(p) ==
    /\ CanBegin(p)
    /\ procs' = Update(p, Invocation("clear", <<>>, Undefined, "c_remove"))
    /\ started' = started + 1
    /\ UNCHANGED <<storage, notifications, persisted, page>>

\* onMessage 'changeListMode': a falsy listMode is first read back from storage.
StartChangeListMode(p) ==
    /\ CanBegin(p)
    /\ \E listMode \in ModeInputs :
          procs' = Update(p, Invocation("changeListMode", <<>>, listMode,
                                        IF listMode = Undefined THEN "m_get" ELSE "m_set"))
    /\ started' = started + 1
    /\ UNCHANGED <<storage, notifications, persisted, page>>

\* history.onVisited.  "unread" marks that line 290 has not run yet.
StartVisit(p) ==
    /\ CanBegin(p)
    /\ \E url \in Urls :
          procs' = Update(p, Invocation("visit", url, "unread", "gb_get1"))
    /\ started' = started + 1
    /\ UNCHANGED <<storage, notifications, persisted, page>>

\* block without the includes test: it always pushes and writes.
BlockBody_NoCheck(l) ==
    IF ~l.hasBl THEN [l EXCEPT !.pc = "threw"]
    ELSE [l EXCEPT !.bl = Append(@, l.arg), !.pc = "set"]

\* block after getBlacklist returned: includes / push, then the write.
BlockBody(l) ==
    IF ~l.hasBl THEN [l EXCEPT !.pc = "threw"]
    ELSE IF ~Includes(l.bl, l.arg) THEN [l EXCEPT !.bl = Append(@, l.arg), !.pc = "set"]
    ELSE [l EXCEPT !.pc = "done"]

\* unblock that writes and notifies also when the pattern is not included.
UnblockBody_AlwaysWrites(l) ==
    IF ~l.hasBl THEN [l EXCEPT !.pc = "threw"]
    ELSE IF Includes(l.bl, l.arg)
         THEN [l EXCEPT !.bl = Splice(@, IndexOf(@, l.arg)), !.pc = "set"]
    ELSE [l EXCEPT !.pc = "set"]

\* unblock after getBlacklist returned: includes / splice, then the write.
UnblockBody(l) ==
    IF ~l.hasBl THEN [l EXCEPT !.pc = "threw"]
    ELSE IF Includes(l.bl, l.arg)
         THEN [l EXCEPT !.bl = Splice(@, IndexOf(@, l.arg)), !.pc = "set"]
    ELSE [l EXCEPT !.pc = "done"]

\* importBlacklist that returns without write or message when the loop added
\* nothing.
ImportBody_SkipsUnchanged(l) ==
    IF ~l.hasBl THEN [l EXCEPT !.pc = "threw"]
    ELSE LET r == ImportLoop(Split(l.arg), l.bl, 1) IN
         IF r.threw THEN [l EXCEPT !.pc = "threw"]
         ELSE IF r.blacklist = l.bl THEN [l EXCEPT !.pc = "done"]
         ELSE [l EXCEPT !.bl = r.blacklist, !.pc = "set"]

\* importBlacklist after getBlacklist returned: the loop, then the write.
ImportBody(l) ==
    IF ~l.hasBl THEN [l EXCEPT !.pc = "threw"]
    ELSE LET r == ImportLoop(Split(l.arg), l.bl, 1) IN
         IF r.threw THEN [l EXCEPT !.pc = "threw"]
         ELSE [l EXCEPT !.bl = r.blacklist, !.pc = "set"]

\* The caller's code after `await this.getBlacklist()`.
AfterGetBlacklist(l) ==
    CASE l.op = "block"   -> BlockBody(l)
      [] l.op = "unblock" -> UnblockBody(l)
      [] l.op = "import"  -> ImportBody(l)
      [] l.op = "clear"   -> [l EXCEPT !.pc = "send"]
      [] l.op = "visit"   -> [l EXCEPT !.pc = "v_get"]

\* getBlacklist, first storage.sync.get(): an absent list is initialized.
GbGet1(p) ==
    /\ procs[p].pc = "gb_get1"
    /\ LET l == Logged(procs[p], "get") IN
       procs' = Update(p, IF ~storage.hasBlacklist
                          THEN [l EXCEPT !.pc = "gb_set"]
                          ELSE AfterGetBlacklist([l EXCEPT !.hasBl = TRUE,
                                                           !.bl = storage.blacklist]))
    /\ UNCHANGED <<storage, started, notifications, persisted, page>>

\* getBlacklist that returns the [] it has just stored, without reading it back.
GbSet_NoReread(p) ==
    /\ procs[p].pc = "gb_set"
    /\ storage' = [storage EXCEPT !.hasBlacklist = TRUE, !.blacklist = <<>>]
    /\ procs' = Update(p, AfterGetBlacklist([Logged(procs[p], "init") EXCEPT
                              !.hasBl = TRUE, !.bl = <<>>]))
    /\ persisted' = persisted \cup {storage'}
    /\ UNCHANGED <<started, notifications, page>>

\* getBlacklist, storage.sync.set({blacklist: []}).
GbSet(p) ==
    /\ procs[p].pc = "gb_set"
    /\ storage' = [storage EXCEPT !.hasBlacklist = TRUE, !.blacklist = <<>>]
    /\ procs' = Update(p, [Logged(procs[p], "init") EXCEPT !.pc = "gb_get2"])
    /\ persisted' = persisted \cup {storage'}
    /\ UNCHANGED <<started, notifications, page>>

\* getBlacklist, second storage.sync.get(): returns storage.blacklist as it is
\* now, undefined if it was removed in between.
GbGet2(p) ==
    /\ procs[p].pc = "gb_get2"
    /\ procs' = Update(p, AfterGetBlacklist([Logged(procs[p], "get") EXCEPT
                              !.hasBl = storage.hasBlacklist,
                              !.bl = storage.blacklist]))
    /\ UNCHANGED <<storage, started, notifications, persisted, page>>

\* storage.sync.set({blacklist: blacklist}) of block, unblock, importBlacklist.
SetBlacklist(p) ==
    /\ procs[p].pc = "set"
    /\ storage' = [storage EXCEPT !.hasBlacklist = TRUE, !.blacklist = procs[p].bl]
    /\ procs' = Update(p, [Logged(procs[p], "set") EXCEPT !.pc = "send"])
    /\ persisted' = persisted \cup {storage'}
    /\ UNCHANGED <<started, notifications, page>>

\* A handler that returns after its write without sending the message.
SendMessage_Forgot(l) == [l EXCEPT !.pc = "done"]

\* The handler's local state after runtime.sendMessage, which is not awaited.
SendMessage(l) == [Logged(l, "send") EXCEPT !.pc = "done"]

\* browser.runtime.sendMessage({action: 'blacklistUpdated'}); the handler
\* returns.  notifications counts the messages sent: one per sendMessage call.
SendUpdated(p) ==
    /\ procs[p].pc = "send"
    /\ procs' = Update(p, SendMessage(procs[p]))
    /\ notifications' = notifications + (Len(procs'[p].log) - Len(procs[p].log))
    /\ UNCHANGED <<storage, started, persisted, page>>

\* storage.sync.clear() in place of remove('blacklist'): the mode goes too.
RemoveEverything(s) == [hasBlacklist |-> FALSE, blacklist |-> <<>>, listMode |-> Undefined]

\* What storage.sync.remove('blacklist') leaves.
RemoveBlacklist(s) == [s EXCEPT !.hasBlacklist = FALSE, !.blacklist = <<>>]

\* clearBlacklist: storage.sync.remove('blacklist'), then getBlacklist.
ClearRemove(p) ==
    /\ procs[p].pc = "c_remove"
    /\ storage' = RemoveBlacklist(storage)
    /\ procs' = Update(p, [Logged(procs[p], "remove") EXCEPT !.pc = "gb_get1"])
    /\ persisted' = persisted \cup {storage'}
    /\ UNCHANGED <<started, notifications, page>>

\* changeListMode: storage.sync.get('listMode') for a falsy argument.
ModeGet(p) ==
    /\ procs[p].pc = "m_get"
    /\ procs' = Update(p, [Logged(procs[p], "get") EXCEPT
                              !.listMode = storage.listMode, !.pc = "m_set"])
    /\ UNCHANGED <<storage, started, notifications, persisted, page>>

\* What storage.sync.set({listMode: listMode}) leaves; a key whose value is
\* undefined is not stored.
SetListMode(s, listMode) ==
    IF listMode = Undefined THEN s ELSE [s EXCEPT !.listMode = listMode]

\* changeListMode: storage.sync.set({listMode: listMode}); no message is sent.
ModeSet(p) ==
    /\ procs[p].pc = "m_set"
    /\ storage' = SetListMode(storage, procs[p].listMode)
    /\ procs' = Update(p, [Logged(procs[p], "set") EXCEPT !.pc = "done"])
    /\ persisted' = persisted \cup {storage'}
    /\ UNCHANGED <<started, notifications, page>>

\* onPageVisited lines 292-309 on the list and the mode it read.
Decide(l) ==
    IF ~l.hasBl THEN [l EXCEPT !.pc = "threw"]
    ELSE LET isBlacklist == l.listMode = "blacklist"
             r == TestLoop(l.bl, l.arg, 1)
             found == r = "found"
         IN  IF r = "threw" THEN [l EXCEPT !.pc = "threw"]
             ELSE IF (isBlacklist /\ found) \/ (~isBlacklist /\ ~found)
             THEN [l EXCEPT !.pc = "v_delete"]
             ELSE [l EXCEPT !.pc = "done"]

\* onPageVisited: the second storage.sync.get() (line 290) and the decision.
VisitGet(p) ==
    /\ procs[p].pc = "v_get"
    /\ procs' = Update(p, Decide([Logged(procs[p], "get") EXCEPT
                                     !.listMode = storage.listMode]))
    /\ UNCHANGED <<storage, started, notifications, persisted, page>>

\* onPageVisited: browser.history.deleteUrl.
VisitDelete(p) ==
    /\ procs[p].pc = "v_delete"
    /\ procs' = Update(p, [Logged(procs[p], "deleteUrl") EXCEPT !.pc = "done"])
    /\ UNCHANGED <<storage, started, notifications, persisted, page>>

\* The pcs at which a storage call is pending.
StoragePcs == {"gb_get1", "gb_set", "gb_get2", "set", "c_remove", "m_get", "m_set", "v_get"}

\* The storage call pending at pc, as the log names it when it rejects.
RejectedCall(pc) ==
    CASE pc = "gb_set"   -> "init rejected"
      [] pc = "set"      -> "set rejected"
      [] pc = "m_set"    -> "set rejected"
      [] pc = "c_remove" -> "remove rejected"
      [] OTHER           -> "get rejected"

\* A handler that catches the rejection of its write of the list and goes on
\* to send the message.
Rejected_Swallowed(l) ==
    [Logged(l, RejectedCall(l.pc)) EXCEPT !.pc = IF l.pc = "set" THEN "send" ELSE "rejected"]

\* The handler after its awaited storage call rejected: no handler has a
\* try/catch, so the rejection ends it.
Rejected(l) == [Logged(l, RejectedCall(l.pc)) EXCEPT !.pc = "rejected"]

\* The pending storage call rejects (storage unavailable): nothing is stored
\* and the rejection propagates out of the handler.
StorageFails(p) ==
    /\ procs[p].pc \in StoragePcs
    /\ procs' = Update(p, Rejected(procs[p]))
    /\ UNCHANGED <<storage, started, notifications, persisted, page>>

\* The handler's promise has settled; its slot is free again.
Return(p) ==
    /\ procs[p].pc \in {"done", "threw", "rejected"}
    /\ procs' = [procs EXCEPT ![p] = Idle]
    /\ UNCHANGED <<storage, started, notifications, persisted, page>>

Next ==
    \E p \in Procs :
        \/ StartBlock(p)
        \/ StartUnblock(p)
        \/ StartImport(p)
        \/ StartClear(p)
        \/ StartChangeListMode(p)
        \/ StartVisit(p)
        \/ GbGet1(p)
        \/ GbSet(p)
        \/ GbGet2(p)
        \/ SetBlacklist(p)
        \/ SendUpdated(p)
        \/ ClearRemove(p)
        \/ ModeGet(p)
        \/ ModeSet(p)
        \/ VisitGet(p)
        \/ VisitDelete(p)
        \/ StorageFails(p)
        \/ Return(p)

Spec == Init /\ [][Next]_vars

\* -------------------------------------------------- a visit being handled

\* history.onVisited has fired as the first event: onPageVisited is at the
\* first await of its getBlacklist.  started counts the invocations begun
\* after this one.
InitDuringVisit ==
    /\ storage \in InitialStorages
    /\ \E url \in Urls :
          procs = [p \in Procs |-> IF p = "h1"
                                   THEN Invocation("visit", url, "unread", "gb_get1")
                                   ELSE Idle]
    /\ started = 0
    /\ notifications = 0
    /\ persisted = {storage}
    /\ rendered = <<>>
    /\ renders = <<>>
    /\ delivered = 0

SpecDuringVisit == InitDuringVisit /\ [][Next]_vars

\* ------------------------------------------------------- the options page

\* A renderBlacklist call at its await of storage.sync.get().
RenderCall == [pc |-> "get", hasBl |-> FALSE, bl |-> <<>>]

\* Options.onMessage: a blacklistUpdated message arrives and renderBlacklist
\* is called.
Deliver ==
    /\ delivered < notifications
    /\ delivered' = delivered + 1
    /\ renders' = Append(renders, RenderCall)
    /\ UNCHANGED <<storage, procs, started, notifications, persisted, rendered>>

\* The storage.sync.get() of a renderBlacklist call reads storage.
RenderGet(i) ==
    /\ renders[i].pc = "get"
    /\ renders' = [renders EXCEPT ![i] = [pc |-> "dom", hasBl |-> storage.hasBlacklist,
                                                      bl |-> storage.blacklist]]
    /\ UNCHANGED <<storage, procs, started, notifications, persisted, rendered,
                   delivered>>

\* The items of #blacklist after renderBlacklist's code behind the await ran
\* on the storage object s: one <li> per pattern (innerHTML is the pattern's
\* text for the patterns here, which hold no markup), untouched if s has no
\* blacklist.
RenderItems(s, items) == IF s.hasBl THEN s.bl ELSE items

\* The promise of a renderBlacklist call resolves, in any order among the calls
\* in flight, and the call finishes.
RenderDom(i) ==
    /\ renders[i].pc = "dom"
    /\ rendered' = RenderItems(renders[i], rendered)
    /\ renders' = SubSeq(renders, 1, i - 1) \o SubSeq(renders, i + 1, Len(renders))
    /\ UNCHANGED <<storage, procs, started, notifications, persisted, delivered>>

\* Options.resetBlacklist / addToBlacklist / removeFromBlacklist: the awaited
\* sendMessage has been answered and the page calls renderBlacklist itself.
ReturnToPage(p) ==
    /\ procs[p].pc = "done"
    /\ procs[p].op \in {"block", "unblock", "clear"}
    /\ procs' = [procs EXCEPT ![p] = Idle]
    /\ renders' = Append(renders, RenderCall)
    /\ UNCHANGED <<storage, started, notifications, persisted, rendered, delivered>>

\* The options page is open and its constructor's renderBlacklist has run.
InitOptions ==
    /\ storage \in InitialStorages
    /\ procs = [p \in Procs |-> Idle]
    /\ started = 0
    /\ notifications = 0
    /\ persisted = {storage}
    /\ rendered = storage.blacklist
    /\ renders = <<>>
    /\ delivered = 0

\* The list is changed from the page or the context menu while the page
\* renders; no storage call is rejected.
NextOptions ==
    \/ \E p \in Procs :
          \/ StartBlock(p)
          \/ StartUnblock(p)
          \/ StartClear(p)
          \/ GbGet1(p)
          \/ GbSet(p)
          \/ GbGet2(p)
          \/ SetBlacklist(p)
          \/ SendUpdated(p)
          \/ ClearRemove(p)
          \/ Return(p)
          \/ ReturnToPage(p)
    \/ Deliver
    \/ \E i \in DOMAIN renders : RenderGet(i)
    \/ \E i \in DOMAIN renders : RenderDom(i)

SpecOptions == InitOptions /\ [][NextOptions]_vars

\* ------------------------------------------------------------------ claims

\* The handler in slot l has settled: returned, thrown, or rejected by storage.
Finished(l) == l.pc \in {"done", "threw", "rejected"}

\* How often the handler made the call `what`.
Count(log, what) == Cardinality({i \in DOMAIN log : log[i] = what})

\* A visit that read both the list and the mode and ran lines 292-309.
Decided(l) ==
    /\ l.op = "visit"
    /\ l.pc \in {"done", "threw"}
    /\ l.hasBl
    /\ l.listMode # "unread"

\* browser.history.deleteUrl was called for the visited address.
Deleted(l) == Includes(l.log, "deleteUrl")

\* At least one pattern of the list matches the address; a text that is no
\* regular expression matches nothing.
AnyMatch(blacklist, url) ==
    \E i \in DOMAIN blacklist : Compiles(blacklist[i]) /\ Test(blacklist[i], url)

\* C1 (as claimed): every visit decided under mode 'blacklist' deletes the
\* address iff some stored pattern matches it, and under mode 'whitelist' iff
\* none does, whatever the stored list.
C1_PolarityForAnyList ==
    \A p \in Procs :
        LET l == procs[p] IN
        (Decided(l) /\ l.listMode \in {"blacklist", "whitelist"}) =>
            (Deleted(l) <=> IF l.listMode = "blacklist"
                            THEN AnyMatch(l.bl, l.arg)
                            ELSE ~AnyMatch(l.bl, l.arg))

\* Beside C1: on lists whose patterns all compile, the decision has the claimed
\* polarity; C1 fails through uncompilable patterns only (C8).
PolarityWhenPatternsCompile ==
    \A p \in Procs :
        LET l == procs[p] IN
        (/\ Decided(l) /\ l.listMode \in {"blacklist", "whitelist"}
         /\ \A i \in DOMAIN l.bl : Compiles(l.bl[i]))
        => (Deleted(l) <=> IF l.listMode = "blacklist"
                           THEN AnyMatch(l.bl, l.arg)
                           ELSE ~AnyMatch(l.bl, l.arg))

\* C2 (as claimed): on storage with nothing persisted, the first handler being a
\* visit, the state is initialized to an empty list with mode blacklist and the
\* visit is decided with blacklist polarity: an address no pattern matches is
\* retained.
C2_DefaultModeIsBlacklist ==
    \A p \in Procs :
        LET l == procs[p] IN
        (Decided(l) /\ l.pc = "done" /\ started = 1 /\ l.pre = EmptyStorage) =>
            /\ storage.hasBlacklist /\ storage.blacklist = <<>>
            /\ storage.listMode = "blacklist"
            /\ (~AnyMatch(l.bl, l.arg) => ~Deleted(l))

\* C3: in every reachable state the persisted pattern list holds no string
\* more than once.
C3_NoDuplicates ==
    \A i, j \in DOMAIN storage.blacklist :
        i # j => storage.blacklist[i] # storage.blacklist[j]

\* C3 witness: two overlapping block("a") on a list without "a" have both
\* written it, and one "a" is stored.
C3_TwoAddsOneEntry ==
    \E p, q \in Procs :
        /\ p # q
        /\ \A r \in {p, q} :
              /\ procs[r].op = "block" /\ procs[r].arg = <<"a">>
              /\ procs[r].pc = "done" /\ Includes(procs[r].log, "set")
              /\ ~Includes(procs[r].pre.blacklist, <<"a">>)
        /\ Count(storage.blacklist, <<"a">>) = 1

\* C4 (as claimed): every persisted pattern is non-empty after trimming, and a
\* block of an empty or whitespace-only text writes nothing and notifies nobody.
C4_NoEmptyPattern ==
    /\ \A i \in DOMAIN storage.blacklist : Trim(storage.blacklist[i]) # <<>>
    /\ \A p \in Procs :
          (procs[p].op = "block" /\ Trim(procs[p].arg) = <<>>) =>
              (~Includes(procs[p].log, "set") /\ ~Includes(procs[p].log, "send"))

\* The list C5 claims importBlacklist leaves: the trimmed non-empty tokens that
\* are not yet present, appended in input order.
RECURSIVE ImportExpected(_, _, _)
ImportExpected(blacklist, tokens, i) ==
    IF i > Len(tokens) THEN blacklist
    ELSE LET t == Trim(tokens[i]) IN
         ImportExpected(IF t # <<>> /\ ~Includes(blacklist, t)
                        THEN Append(blacklist, t) ELSE blacklist,
                        tokens, i+1)

\* C5 (as claimed): an importBlacklist of a non-empty text that no other handler
\* overlaps and no storage failure interrupts leaves the stored list followed by
\* the new trimmed tokens, written with a single write.
C5_ImportAppendsNewTokens ==
    \A p \in Procs :
        LET l == procs[p] IN
        (l.op = "import" /\ l.arg # <<>> /\ l.solo /\ l.pc \in {"done", "threw"}) =>
            /\ storage.hasBlacklist
            /\ storage.blacklist = ImportExpected(l.pre.blacklist, Split(l.arg), 1)
            /\ Count(l.log, "set") = 1

\* message.listMode as it arrived: changeListMode reads storage only for a falsy
\* argument, which it then overwrites.
GivenMode(l) == IF Includes(l.log, "get") THEN Undefined ELSE l.listMode

\* C6 (as claimed): a changeListMode that nothing overlaps replaces the mode for a
\* valid value, and for any other value leaves storage as it was and writes
\* nothing.
C6_InvalidModeIgnored ==
    \A p \in Procs :
        LET l == procs[p] IN
        (l.op = "changeListMode" /\ l.solo /\ l.pc = "done") =>
            IF GivenMode(l) \in {"blacklist", "whitelist"}
            THEN storage = [l.pre EXCEPT !.listMode = GivenMode(l)]
            ELSE storage = l.pre /\ ~Includes(l.log, "set")

\* C7: when a clearBlacklist that nothing overlapped has completed, the
\* persisted list is the empty list and the mode is the one persisted before.
C7_ClearKeepsMode ==
    \A p \in Procs :
        LET l == procs[p] IN
        (l.op = "clear" /\ l.solo /\ l.pc = "done") =>
            /\ storage.hasBlacklist
            /\ storage.blacklist = <<>>
            /\ storage.listMode = l.pre.listMode

\* C7 witness: a clear alone has completed on a non-empty list in whitelist mode.
C7_ClearedWhitelist ==
    \E p \in Procs :
        /\ procs[p].op = "clear" /\ procs[p].solo /\ procs[p].pc = "done"
        /\ procs[p].pre.blacklist # <<>>
        /\ procs[p].pre.listMode = "whitelist"
        /\ storage.listMode = "whitelist"

\* C8 (as claimed): no decided visit ends in an error, and in blacklist mode a
\* text that is no regular expression followed by a pattern that matches the
\* address still has the address deleted.
C8_BadPatternSkipped ==
    \A p \in Procs :
        LET l == procs[p] IN
        Decided(l) =>
            /\ l.pc = "done"
            /\ (/\ l.listMode = "blacklist"
                /\ \E i, j \in DOMAIN l.bl :
                      /\ i < j
                      /\ ~Compiles(l.bl[i])
                      /\ Compiles(l.bl[j]) /\ Test(l.bl[j], l.arg))
               => Deleted(l)

\* The handler's own write of state a mutation persists: the list of block and
\* unblock, the removal of clear.
Wrote(l) ==
    \/ l.op \in {"block", "unblock"} /\ Includes(l.log, "set")
    \/ l.op = "clear" /\ Includes(l.log, "remove")

\* Every send of the handler comes after a completed write of its own.
SendsAfterWrite(l) ==
    \A i \in DOMAIN l.log :
        l.log[i] = "send" => \E j \in 1..(i-1) : l.log[j] \in {"set", "remove"}

\* C9 (as claimed): every mutating handler that succeeded, a changeListMode with
\* a valid mode included, has sent exactly one blacklistUpdated, after its write.
C9_EveryMutationNotifies ==
    \A p \in Procs :
        LET l == procs[p] IN
        (/\ l.pc = "done"
         /\ \/ Wrote(l)
            \/ l.op = "changeListMode" /\ GivenMode(l) \in {"blacklist", "whitelist"})
        => (Count(l.log, "send") = 1 /\ SendsAfterWrite(l))

\* C9 (amended): block of a new pattern, unblock of a present pattern and clear
\* send exactly one blacklistUpdated each, after their write to storage has
\* completed, and return with that send; no handler sends before a write of its
\* own or more than once; changeListMode sends nothing.
C9_ListMutationsNotify ==
    \A p \in Procs :
        LET l == procs[p] IN
        /\ Count(l.log, "send") <= 1
        /\ SendsAfterWrite(l)
        /\ (l.pc = "done" /\ Wrote(l)) =>
               (Count(l.log, "send") = 1 /\ l.log[Len(l.log)] = "send")
        /\ l.op = "changeListMode" => Count(l.log, "send") = 0

\* C9 witness: a block has written and notified, and a changeListMode with a
\* valid mode has written and returned without a message.
C9_NotifiedAndSilent ==
    \E p, q \in Procs :
        /\ procs[p].op = "block" /\ procs[p].pc = "done"
        /\ Includes(procs[p].log, "set") /\ Count(procs[p].log, "send") = 1
        /\ procs[q].op = "changeListMode" /\ procs[q].pc = "done"
        /\ procs[q].listMode = "whitelist" /\ storage.listMode = "whitelist"
        /\ notifications = 1

\* C10: a block of a stored pattern and an unblock of a pattern not stored, with
\* nothing overlapping, leave the stored patterns and the mode as they were, do
\* not issue the write of the list and send no message.  (An unblock on storage
\* without a list still has getBlacklist initialize it to the empty list.)
C10_NothingToDo ==
    \A p \in Procs :
        LET l == procs[p] IN
        (/\ l.solo /\ l.pc = "done"
         /\ \/ l.op = "block" /\ Includes(l.pre.blacklist, l.arg)
            \/ l.op = "unblock" /\ ~Includes(l.pre.blacklist, l.arg))
        => /\ storage.blacklist = l.pre.blacklist
           /\ storage.listMode = l.pre.listMode
           /\ ~Includes(l.log, "set")
           /\ ~Includes(l.log, "send")

\* C10 witness: block("a") alone has returned on a list that held "a" already.
C10_AddedTwice ==
    \E p \in Procs :
        /\ procs[p].op = "block" /\ procs[p].solo /\ procs[p].pc = "done"
        /\ procs[p].arg = <<"a">>
        /\ Includes(procs[p].pre.blacklist, <<"a">>)
        /\ Count(storage.blacklist, <<"a">>) = 1

\* C11 (as claimed): an importBlacklist that nothing overlapped has sent
\* blacklistUpdated only if it added at least one pattern to the stored list.
C11_ImportNotifiesOnlyWhenAdded ==
    \A p \in Procs :
        LET l == procs[p] IN
        (l.op = "import" /\ l.solo /\ Includes(l.log, "send")) =>
            \E i \in DOMAIN storage.blacklist :
                ~Includes(l.pre.blacklist, storage.blacklist[i])

\* C11 (amended): an importBlacklist of a non-empty text that returns has
\* written the list and then sent exactly one blacklistUpdated, whether or not
\* it added a pattern; it sends nothing before that write, and nothing at all
\* for an empty text.
C11_ImportNotifiesAfterWrite ==
    \A p \in Procs :
        LET l == procs[p] IN
        l.op = "import" =>
            /\ SendsAfterWrite(l)
            /\ Count(l.log, "send") <= 1
            /\ (l.pc = "done" /\ l.arg # <<>>) =>
                   (Includes(l.log, "set") /\ l.log[Len(l.log)] = "send")
            /\ l.arg = <<>> => l.log = <<>>

\* C11 witness: importBlacklist("a") alone on a list that held "a" has written
\* the same list and sent the message.
C11_NotifiedWithoutAdding ==
    \E p \in Procs :
        /\ procs[p].op = "import" /\ procs[p].solo /\ procs[p].pc = "done"
        /\ procs[p].arg = <<"a">>
        /\ Includes(procs[p].log, "send")
        /\ storage = procs[p].pre

\* C12 (as claimed): of two block calls for the same pattern, not stored when
\* either began, that are in flight together, at most one passes the includes
\* test and writes the list.
C12_AtMostOneAddWrites ==
    \A p, q \in Procs :
        (/\ p # q
         /\ procs[p].op = "block" /\ procs[q].op = "block"
         /\ procs[p].arg = procs[q].arg
         /\ ~Includes(procs[p].pre.blacklist, procs[p].arg)
         /\ ~Includes(procs[q].pre.blacklist, procs[q].arg)
         /\ procs[p].pc \in {"set", "send"})
        => procs[q].pc \notin {"set", "send"}

\* C13 (as claimed): when two block calls with distinct patterns, the only two
\* handlers run, have both written and returned, both patterns are stored.
C13_NoLostAdd ==
    \A p, q \in Procs :
        (/\ p # q /\ started = 2
         /\ procs[p].op = "block" /\ procs[q].op = "block"
         /\ procs[p].arg # procs[q].arg
         /\ procs[p].pc = "done" /\ procs[q].pc = "done"
         /\ Includes(procs[p].log, "set") /\ Includes(procs[q].log, "set"))
        => /\ Includes(storage.blacklist, procs[p].arg)
           /\ Includes(storage.blacklist, procs[q].arg)

\* C19 (as claimed): when a clearBlacklist and a block or unblock of x, the only
\* two handlers run, have both returned, the stored list holds no pattern that
\* was stored when the clear began, other than x.
C19_ClearNotUndone ==
    \A p, q \in Procs :
        (/\ p # q /\ started = 2
         /\ procs[p].op = "clear" /\ procs[p].pc = "done"
         /\ procs[q].op \in {"block", "unblock"} /\ procs[q].pc = "done")
        => \A i \in DOMAIN storage.blacklist :
               \/ ~Includes(procs[p].pre.blacklist, storage.blacklist[i])
               \/ storage.blacklist[i] = procs[q].arg

\* The list without the entries equal to x, the others in their order.
Without(list, x) == LET Other(e) == e # x IN SelectSeq(list, Other)

\* C15: a block of a pattern not stored, with nothing overlapping, leaves the
\* stored list followed by the pattern; an unblock of a stored pattern leaves
\* the stored list less that one entry, the others in their order; neither
\* changes the mode.
C15_AppendAndRemoveInPlace ==
    \A p \in Procs :
        LET l == procs[p] IN
        (l.solo /\ l.pc = "done") =>
            /\ (l.op = "block" /\ ~Includes(l.pre.blacklist, l.arg)) =>
                   /\ storage.blacklist = Append(l.pre.blacklist, l.arg)
                   /\ storage.listMode = l.pre.listMode
            /\ (l.op = "unblock" /\ Includes(l.pre.blacklist, l.arg)) =>
                   /\ storage.blacklist = Without(l.pre.blacklist, l.arg)
                   /\ Len(storage.blacklist) = Len(l.pre.blacklist) - 1
                   /\ storage.listMode = l.pre.listMode

\* C15 witness: an unblock alone has removed the middle one of three patterns
\* (the third appended by an earlier block) and the other two are stored in
\* their order.
C15_MiddleRemoved ==
    \E p \in Procs :
        LET l == procs[p] IN
        /\ l.op = "unblock" /\ l.solo /\ l.pc = "done"
        /\ Len(l.pre.blacklist) = 3
        /\ l.arg = l.pre.blacklist[2]
        /\ storage.blacklist = <<l.pre.blacklist[1], l.pre.blacklist[3]>>

\* C16: a block or unblock whose write of the list was rejected has ended as
\* rejected with that call as its last, has written nothing and sent no
\* message; if nothing overlapped it, the stored patterns and the mode are
\* those from before it.
C16_FailedWriteChangesNothing ==
    \A p \in Procs :
        LET l == procs[p] IN
        (l.op \in {"block", "unblock"} /\ Includes(l.log, "set rejected")) =>
            /\ l.pc = "rejected"
            /\ l.log[Len(l.log)] = "set rejected"
            /\ Count(l.log, "set rejected") = 1
            /\ ~Includes(l.log, "set")
            /\ ~Includes(l.log, "send")
            /\ l.solo => /\ storage.blacklist = l.pre.blacklist
                         /\ storage.listMode = l.pre.listMode

\* C16 witness: the write of block("") alone on a stored list was rejected.
C16_AddRejected ==
    \E p \in Procs :
        LET l == procs[p] IN
        /\ l.op = "block" /\ l.solo /\ l.pc = "rejected"
        /\ l.log = <<"get", "set rejected">>
        /\ l.pre.blacklist # <<>>
        /\ ~Includes(l.pre.blacklist, l.arg)
        /\ storage = l.pre

\* C17 (as claimed): once the persisted record holds a pattern list it holds
\* one in every later state: no step of any handler, and no rejected storage
\* call, leaves storage without a pattern list.
C17_ListStaysPresent == [][storage.hasBlacklist => storage'.hasBlacklist]_vars

\* The calls of the handler after its i-th one.
After(log, i) == SubSeq(log, i + 1, Len(log))

\* C18 (as claimed): in add, remove, import, clear and setMode, by the time the
\* handler sends its message or completes, each of its writes to storage has
\* been followed by a read of storage.
C18_EveryWriteReadBack ==
    \A p \in Procs :
        LET l == procs[p] IN
        (l.op \in {"block", "unblock", "import", "clear", "changeListMode"}
         /\ l.pc \in {"send", "done"}) =>
            \A i \in DOMAIN l.log :
                l.log[i] \in {"init", "set", "remove"} => Includes(After(l.log, i), "get")

\* C18 (amended): only the writes inside clearBlacklist and getBlacklist are
\* read back: the removal and the initializing write of [] are each followed
\* directly by a read of storage; the write of the changed list or of the mode
\* is the handler's last storage call, followed by the message or by nothing.
C18_OnlyInitAndRemoveReadBack ==
    \A p \in Procs :
        LET l == procs[p] IN
        \A i \in DOMAIN l.log :
            /\ l.log[i] = "init" =>
                   IF i = Len(l.log) THEN l.pc = "gb_get2"
                   ELSE l.log[i + 1] \in {"get", "get rejected"}
            /\ l.log[i] = "remove" =>
                   IF i = Len(l.log) THEN l.pc = "gb_get1"
                   ELSE l.log[i + 1] \in {"get", "get rejected"}
            /\ l.log[i] = "set" =>
                   IF l.op = "changeListMode" THEN i = Len(l.log) /\ l.pc = "done"
                   ELSE IF i = Len(l.log) THEN l.pc = "send"
                   ELSE After(l.log, i) = <<"send">> /\ l.pc = "done"

\* C18 witness: an add on storage without a list has completed: its
\* initializing write was read back, its write of the new list was not.
C18_AddInitializedAndWrote ==
    \E p \in Procs :
        LET l == procs[p] IN
        /\ l.op = "block" /\ l.pc = "done"
        /\ l.log = <<"get", "init", "get", "set", "send">>

\* C14 (as claimed): the pattern list and the mode a visit was decided on were
\* persisted together: some value storage has held carries both.
C14_VisitUsesOneSnapshot ==
    \A p \in Procs :
        LET l == procs[p] IN
        Decided(l) =>
            \E s \in persisted : /\ s.hasBlacklist
                                 /\ s.blacklist = l.bl
                                 /\ s.listMode = l.listMode

\* No handler is in flight, every message sent has reached the page, and no
\* renderBlacklist call is pending.
Quiescent ==
    /\ \A p \in Procs : procs[p].pc = "idle"
    /\ delivered = notifications
    /\ renders = <<>>

\* C20 (as claimed): when the handlers have returned, every blacklistUpdated
\* message has been delivered and every render has finished, the page shows
\* the persisted pattern list; from such a state nothing changes the page
\* unless a further mutation occurs.
C20_PageShowsStore == Quiescent => rendered = storage.blacklist

====
